---- MODULE Spec2Model ----
(***************************************************************************)
(* A model of the genetic knapsack solver of src/knapsack.cpp.             *)
(*                                                                         *)
(* An Individual (std::vector<bool>) is a sequence of BOOLEAN; the code's  *)
(* 0-based gene index k is position k + 1 here.  A Population is a         *)
(* sequence of Individuals.  The random number generator is modelled by    *)
(* nondeterministic choice over the values its distributions can return.   *)
(*                                                                         *)
(* Reading or writing a gene at an index >= size() is undefined behaviour  *)
(* in the code.  The model takes it as a choice between a crash and the    *)
(* access going through on unrelated memory: a read then returns either    *)
(* bit, a write does not change the vector.                                *)
(***************************************************************************)
EXTENDS Integers, Sequences, FiniteSets

\* Bounds of the model.
MaxN == 2
MaxValue == 1
MaxWeight == 1
MaxCapacity == 1
MaxPop == 2
MaxIter == 2
MaxPool == 3
MaxCallValue == 2
MaxCallWeight == 2
MaxCallCapacity == 3
MaxSelectN == 1

VARIABLES
    items,          \* KnapsackSolver::items, a sequence of [value, weight]
    capacity,       \* KnapsackSolver::capacity
    popSize,        \* KnapsackSolver::popSize
    maxIterations,  \* KnapsackSolver::maxIterations
    generation,     \* KnapsackSolver::generation
    nextGen,        \* the local nextGen of solve()
    i,              \* the loop counter of solve()
    pc,             \* where the program is
    result,         \* the Individual solve() returned
    bestHist,       \* fitness of generation[0] as evaluated after each iteration
    call,           \* the arguments of a direct call of one member function
    ret             \* what that call returned

vars == <<items, capacity, popSize, maxIterations, generation, nextGen, i, pc,
          result, bestHist, call, ret>>

config == <<items, capacity, popSize, maxIterations>>

----------------------------------------------------------------------------
\* Data

Item == [value : 1..MaxValue, weight : 0..MaxWeight]

Catalogs == UNION { [1..n -> Item] : n \in 1..MaxN }

\* the items of the catalogs that direct calls of fitness() and of
\* generateIndividual() are tried on
CallItem == [value : 0..MaxCallValue, weight : 0..MaxCallWeight]

CallCatalogs == UNION { [1..n -> CallItem] : n \in 1..MaxN }

\* the catalogs that direct calls of naturalSelection() are tried on
SelectCatalogs == UNION { [1..n -> Item] : n \in 1..MaxSelectN }

N == Len(items)

BitVec(n) == [1..n -> BOOLEAN]

\* bool converted to int, as in items[i].value * ind[i]
B2I(b) == IF b THEN 1 ELSE 0

\* what breedingDistribution(rng) can return: uniform over [0, items.size() - 1]
BreedingDraws == 0..(N - 1)

\* what populationDistribution(rng) can return: uniform over [0, pop - 1]
PopulationDraws == 0..(popSize - 1)

----------------------------------------------------------------------------
\* fitness

RECURSIVE fitnessLoop(_, _, _, _)
fitnessLoop(ind, k, fit, weight) ==
    IF k > N THEN <<fit, weight>>
    ELSE fitnessLoop(ind, k + 1,
                     fit + items[k].value * B2I(ind[k]),
                     weight + items[k].weight * B2I(ind[k]))

\* fitness with the capacity test taken as weight >= capacity
fitnessGE(ind) ==
    LET r == fitnessLoop(ind, 1, 0, 0)
    IN  IF r[2] >= capacity THEN 0 ELSE r[1]

fitness(ind) ==
    LET r == fitnessLoop(ind, 1, 0, 0)
    IN  IF r[2] > capacity THEN 0 ELSE r[1]

\* The gene vectors the loop of fitness() can read from ind: ind itself when it
\* has N genes, else ind followed by whatever the out-of-bounds reads return.
fitnessReads(ind) ==
    { g \in BitVec(N) : \A k \in 1..N : k <= Len(ind) => g[k] = ind[k] }

\* The values a call fitness(ind) can return if it returns.
fitnessOutcomes(ind) == { fitness(g) : g \in fitnessReads(ind) }

\* fitness(ind) reads out of bounds
fitnessUB(ind) == Len(ind) < N

----------------------------------------------------------------------------
\* mutate

mutateUB(parent, mutatingIndex) == mutatingIndex >= Len(parent)

mutate(parent, mutatingIndex) ==
    IF mutateUB(parent, mutatingIndex) THEN parent
    ELSE [parent EXCEPT ![mutatingIndex + 1] = ~@]

----------------------------------------------------------------------------
\* crossover

\* the first loop reads parent1 and writes child (both of parent1.size() genes)
\* below crossoverIndex; the second writes child from crossoverIndex up to
\* parent2.size()
crossoverUB(parent1, parent2, crossoverIndex) ==
    \/ crossoverIndex > Len(parent1)
    \/ \E k \in crossoverIndex..(Len(parent2) - 1) : k >= Len(parent1)

\* crossover with the gene at crossoverIndex taken from parent1
crossoverOffByOne(parent1, parent2, crossoverIndex) ==
    [k \in 1..Len(parent1) |->
        IF k - 1 <= crossoverIndex THEN parent1[k]
        ELSE IF k - 1 < Len(parent2) THEN parent2[k]
        ELSE FALSE]

crossover(parent1, parent2, crossoverIndex) ==
    [k \in 1..Len(parent1) |->
        IF k - 1 < crossoverIndex THEN parent1[k]
        ELSE IF k - 1 < Len(parent2) THEN parent2[k]
        ELSE FALSE]

----------------------------------------------------------------------------
\* generateIndividual; draws[k] is what breedingDistribution(rng) returns in
\* the iteration for gene k - 1

RECURSIVE generateLoop(_, _, _, _)
generateLoop(draws, k, weight, ind) ==
    IF k > N THEN ind
    ELSE IF draws[k] % 2 = 1
         THEN IF weight + items[k].weight > capacity
              THEN ind
              ELSE generateLoop(draws, k + 1, weight + items[k].weight,
                                [ind EXCEPT ![k] = TRUE])
         ELSE generateLoop(draws, k + 1, weight, ind)

\* the loop with continue in place of break
RECURSIVE generateLoopNoBreak(_, _, _, _)
generateLoopNoBreak(draws, k, weight, ind) ==
    IF k > N THEN ind
    ELSE IF draws[k] % 2 = 1
         THEN IF weight + items[k].weight > capacity
              THEN generateLoopNoBreak(draws, k + 1, weight, ind)
              ELSE generateLoopNoBreak(draws, k + 1, weight + items[k].weight,
                                       [ind EXCEPT ![k] = TRUE])
         ELSE generateLoopNoBreak(draws, k + 1, weight, ind)

\* the loop with ind[i] = true set before the capacity test
RECURSIVE generateLoopOver(_, _, _, _)
generateLoopOver(draws, k, weight, ind) ==
    IF k > N THEN ind
    ELSE IF draws[k] % 2 = 1
         THEN IF weight + items[k].weight > capacity
              THEN [ind EXCEPT ![k] = TRUE]
              ELSE generateLoopOver(draws, k + 1, weight + items[k].weight,
                                    [ind EXCEPT ![k] = TRUE])
         ELSE generateLoopOver(draws, k + 1, weight, ind)

generateIndividualOver(draws) ==
    generateLoopOver(draws, 1, 0, [k \in 1..N |-> FALSE])

generateIndividualNoBreak(draws) ==
    generateLoopNoBreak(draws, 1, 0, [k \in 1..N |-> FALSE])

generateIndividual(draws) == generateLoop(draws, 1, 0, [k \in 1..N |-> FALSE])

DrawSeqs == [1..N -> BreedingDraws]

\* The populations generateInitialPop() can return: popSize individuals, each
\* what generateIndividual() returns for some draws (none when popSize <= 0).
generateInitialPop ==
    [1..popSize -> { generateIndividual(draws) : draws \in DrawSeqs }]

----------------------------------------------------------------------------
\* naturalSelection

\* the comparator with < in place of >
sortBeforeAscending(lhs, rhs) == lhs < rhs

\* the comparator handed to std::sort, on the fitness of lhs and of rhs
sortBefore(lhs, rhs) == lhs > rhs

\* The index sequences std::sort can put in the first k places when it sorts
\* the indices S of a population whose fitness values are f: an index can come
\* first when the comparator puts no other index before it.
RECURSIVE sortedPrefixes(_, _, _)
sortedPrefixes(S, f, k) ==
    IF k <= 0 \/ S = {} THEN { <<>> }
    ELSE UNION { { <<j>> \o t : t \in sortedPrefixes(S \ {j}, f, k - 1) } :
                 j \in { j \in S : \A m \in S : ~sortBefore(f[m], f[j]) } }

\* The populations naturalSelection(pop) can return when the calls of fitness
\* on pop[j] return f[j].
naturalSelection(pop, f) ==
    { [k \in 1..Len(s) |-> pop[s[k]]] :
      s \in sortedPrefixes(DOMAIN pop, f, popSize) }

\* The fitness values the sort of pop can see: fitness(pop[j]) for an
\* individual of N genes, any outcome of the out-of-bounds reads for a shorter
\* one.  The shorter individuals of a population are all the empty Individual
\* that resize() appended, so exchanging the values of two of them gives the
\* same populations; only the assignments that do not increase along them
\* are kept.
fitnessAssignments(pop) ==
    LET bad == { j \in DOMAIN pop : fitnessUB(pop[j]) }
        good == [j \in DOMAIN pop \ bad |-> fitness(pop[j])]
    IN  { [j \in DOMAIN pop |-> IF j \in bad THEN g[j] ELSE good[j]] :
          g \in { h \in [bad -> fitnessOutcomes(<<>>)] :
                      \A a, b \in bad : a < b => h[a] >= h[b] } }

----------------------------------------------------------------------------
\* breed

\* std::vector::resize(n): truncates, or appends default-constructed (empty)
\* Individuals
resize(pop, n) ==
    [k \in 1..n |-> IF k <= Len(pop) THEN pop[k] ELSE <<>>]

BreedChoices(pop) ==
    [DOMAIN pop -> [m : BreedingDraws, c : BreedingDraws, p : PopulationDraws]]

children(pop, ch) ==
    [k \in 1..(2 * Len(pop)) |->
        IF k % 2 = 1
        THEN mutate(pop[(k + 1) \div 2], ch[(k + 1) \div 2].m)
        ELSE crossover(pop[k \div 2], pop[ch[k \div 2].p + 1], ch[k \div 2].c)]

breedUB(pop, ch) ==
    \E k \in DOMAIN pop :
        \/ mutateUB(pop[k], ch[k].m)
        \/ crossoverUB(pop[k], pop[ch[k].p + 1], ch[k].c)

breed(pop, ch) == resize(pop, popSize * 3) \o children(pop, ch)

----------------------------------------------------------------------------
\* The solver: construction and solve()

InitWith(catalogs, capacities, popSizes, iterationCounts, start) ==
    /\ items \in catalogs
    /\ capacity \in capacities
    /\ popSize \in popSizes
    /\ maxIterations \in iterationCounts
    /\ generation = <<>>
    /\ nextGen = <<>>
    /\ i = 0
    /\ pc = start
    /\ result = <<>>
    /\ bestHist = <<>>
    /\ call = <<>>
    /\ ret = <<>>

\* the arguments of the constructor: any catalog of at least one item, any
\* population size and iteration count, the invalid ones included
Init ==
    InitWith(Catalogs, 0..MaxCapacity, (0 - 1)..MaxPop, (0 - 1)..MaxIter, "new")

\* the constructor: stores its arguments, checks nothing
Construct ==
    /\ pc = "new"
    /\ pc' = "Uninitialized"
    /\ UNCHANGED <<config, generation, nextGen, i, result, bestHist, call, ret>>

\* solve() up to the loop: generation = generateInitialPop()
SolveInit ==
    /\ pc = "Uninitialized"
    /\ generation' \in generateInitialPop
    /\ i' = 0
    /\ pc' = "Running"
    /\ UNCHANGED <<config, nextGen, result, bestHist, call, ret>>

\* nextGen = breed(generation)
Breed ==
    /\ pc = "Running"
    /\ i < maxIterations
    /\ \/ /\ popSize < 0          \* resize() of a negative count throws
          /\ pc' = "crashed"
          /\ UNCHANGED nextGen
       \/ /\ popSize >= 0
          /\ \E ch \in BreedChoices(generation) :
               \/ /\ nextGen' = breed(generation, ch)
                  /\ pc' = "Bred"
               \/ /\ breedUB(generation, ch)
                  /\ pc' = "crashed"
                  /\ UNCHANGED nextGen
    /\ UNCHANGED <<config, generation, i, result, bestHist, call, ret>>

\* generation = naturalSelection(nextGen); ++i
Select ==
    /\ pc = "Bred"
    /\ \/ /\ \E g \in UNION { naturalSelection(nextGen, f) :
                                 f \in fitnessAssignments(nextGen) } :
                   /\ generation' = g
                   /\ IF Len(g) >= 1
                      THEN \E b \in fitnessOutcomes(g[1]) :
                               bestHist' = Append(bestHist, b)
                      ELSE UNCHANGED bestHist
          /\ i' = i + 1
          /\ pc' = "Running"
       \/ /\ Len(nextGen) >= 2
          /\ \E j \in DOMAIN nextGen : fitnessUB(nextGen[j])
          /\ pc' = "crashed"
          /\ UNCHANGED <<generation, i, bestHist>>
    /\ UNCHANGED <<config, nextGen, result, call, ret>>

\* return generation[0]
SolveReturn ==
    /\ pc = "Running"
    /\ i >= maxIterations
    /\ \/ /\ Len(generation) >= 1
          /\ result' = generation[1]
          /\ pc' = "Done"
       \/ /\ Len(generation) = 0
          /\ \/ /\ pc' = "crashed"
                /\ UNCHANGED result
             \/ /\ \E n \in 0..N : \E g \in BitVec(n) : result' = g
                /\ pc' = "Done"
    /\ UNCHANGED <<config, generation, nextGen, i, bestHist, call, ret>>

Next == Construct \/ SolveInit \/ Breed \/ Select \/ SolveReturn

Spec == Init /\ [][Next]_vars

\* The runs of solve() short enough to be explored over larger catalogs: a
\* valid population of any size and no iteration, or one individual and one
\* iteration.
InitShort ==
    /\ InitWith(Catalogs, 0..MaxCapacity, 1..MaxPop, 0..1, "new")
    /\ maxIterations = 0 \/ popSize = 1

SpecShort == InitShort /\ [][Next]_vars

----------------------------------------------------------------------------
\* Direct calls of one member function on a constructed solver

InitFitness ==
    InitWith(CallCatalogs, (0 - 1)..MaxCallCapacity, {1}, {0}, "idle")

InitCrossover == InitWith(Catalogs, 0..MaxCapacity, {1}, {0}, "idle")

InitGenerate ==
    InitWith(CallCatalogs, 0..MaxCallCapacity, {1}, {0}, "idle")

InitSelect ==
    InitWith(SelectCatalogs, 0..MaxCapacity, 1..MaxPop, {0}, "idle")

solverState == <<config, generation, nextGen, i, result, bestHist>>

CallFitness ==
    /\ pc = "idle"
    /\ \E ind \in BitVec(N) :
           /\ call' = [op |-> "fitness", ind |-> ind]
           /\ ret' = fitness(ind)
    /\ pc' = "returned"
    /\ UNCHANGED solverState

CallCrossover ==
    /\ pc = "idle"
    /\ \E parent1 \in BitVec(N), parent2 \in BitVec(N),
          crossoverIndex \in BreedingDraws :
           /\ call' = [op |-> "crossover", parent1 |-> parent1,
                       parent2 |-> parent2, crossoverIndex |-> crossoverIndex]
           /\ ret' = crossover(parent1, parent2, crossoverIndex)
    /\ pc' = "returned"
    /\ UNCHANGED solverState

CallGenerateIndividual ==
    /\ pc = "idle"
    /\ \E draws \in DrawSeqs :
           /\ call' = [op |-> "generateIndividual", draws |-> draws]
           /\ ret' = generateIndividual(draws)
    /\ pc' = "returned"
    /\ UNCHANGED solverState

CallNaturalSelection ==
    /\ pc = "idle"
    /\ \E n \in popSize..MaxPool :
         \E pop \in [1..n -> BitVec(N)] :
           /\ call' = [op |-> "naturalSelection", pop |-> pop]
           /\ ret' \in naturalSelection(pop, [j \in 1..n |-> fitness(pop[j])])
    /\ pc' = "returned"
    /\ UNCHANGED solverState

SpecFitness == InitFitness /\ [][CallFitness]_vars

SpecCrossover == InitCrossover /\ [][CallCrossover]_vars

SpecGenerate == InitGenerate /\ [][CallGenerateIndividual]_vars

SpecSelect == InitSelect /\ [][CallNaturalSelection]_vars

----------------------------------------------------------------------------
\* What the claims speak of

RECURSIVE sumOf(_, _)
sumOf(S, f) ==
    IF S = {} THEN 0
    ELSE LET k == CHOOSE k \in S : TRUE IN f[k] + sumOf(S \ {k}, f)

selected(ind) == { k \in DOMAIN ind : ind[k] }

weightOf(S) == sumOf(S, [k \in DOMAIN items |-> items[k].weight])

valueOf(S) == sumOf(S, [k \in DOMAIN items |-> items[k].value])

count(pop, x) == Cardinality({ k \in DOMAIN pop : pop[k] = x })

range(pop) == { pop[k] : k \in DOMAIN pop }

validConfig == popSize >= 1 /\ maxIterations >= 0

\* C1: with N >= 1, populationSize >= 1 and iterationCount >= 0, every
\* individual of the current generation and of the pool breed() returned has
\* exactly N genes, and so has the individual solve() returns.
C1_EveryIndividualHasNGenes ==
    validConfig =>
        /\ \A k \in DOMAIN generation : Len(generation[k]) = N
        /\ \A k \in DOMAIN nextGen : Len(nextGen[k]) = N
        /\ pc = "Done" => Len(result) = N

\* C2: the pool breed(population) returns for a non-empty population has
\* exactly 3 * |population| individuals, the first |population| of them the
\* original ones.
C2_BreedTriplesPopulation ==
    (pc = "Bred" /\ Len(generation) >= 1) =>
        /\ Len(nextGen) = 3 * Len(generation)
        /\ \A k \in DOMAIN generation : nextGen[k] = generation[k]

\* C3: the fitness of generation[0] after an iteration of solve() is never
\* below its fitness after the iteration before.
C3_BestFitnessNeverDecreases ==
    validConfig =>
        \A k \in 1..(Len(bestHist) - 1) : bestHist[k + 1] >= bestHist[k]

\* C4: for a pool of at least P individuals naturalSelection returns exactly
\* P individuals, a sub-multiset of the pool, in non-increasing order of
\* fitness, each of them at least as fit as every discarded individual.
C4_SelectionKeepsTheFittest ==
    pc = "returned" =>
        LET pop == call.pop
            discarded == { x \in range(pop) : count(pop, x) > count(ret, x) }
        IN  /\ Len(ret) = popSize
            /\ \A x \in range(ret) : count(ret, x) <= count(pop, x)
            /\ \A k \in 1..(Len(ret) - 1) :
                   fitness(ret[k]) >= fitness(ret[k + 1])
            /\ \A k \in DOMAIN ret : \A x \in discarded :
                   fitness(ret[k]) >= fitness(x)

\* a selection that discards a strictly less fit individual and returns
\* individuals of different fitness
C4_Witness ==
    /\ pc = "returned"
    /\ Len(call.pop) > popSize
    /\ Len(ret) >= 2
    /\ fitness(ret[1]) > fitness(ret[Len(ret)])
    /\ \E x \in range(call.pop) :
           /\ count(call.pop, x) > count(ret, x)
           /\ fitness(x) <= fitness(ret[Len(ret)])

\* C5: fitness(individual) is the sum of the values of the selected items
\* when the sum of their weights is <= capacity, and 0 when that sum exceeds
\* capacity; the individual with no gene selected has fitness 0.
C5_FitnessIsValueWithinCapacity ==
    pc = "returned" =>
        /\ ret = IF weightOf(selected(call.ind)) <= capacity
                 THEN valueOf(selected(call.ind))
                 ELSE 0
        /\ selected(call.ind) = {} => ret = 0

\* an individual of positive selected value over capacity, of fitness 0
C5_Witness ==
    /\ pc = "returned"
    /\ capacity >= 0
    /\ weightOf(selected(call.ind)) > capacity
    /\ valueOf(selected(call.ind)) > 0
    /\ ret = 0

\* C6: with iterationCount = 0 the individual solve() returns is at least as
\* fit as every individual of the initial random population.
C6_ZeroIterationsReturnsTheBest ==
    (pc = "Done" /\ popSize >= 1 /\ maxIterations = 0) =>
        \A k \in DOMAIN generation :
            fitness(result) >= fitness(generation[k])

\* C7: no solver constructed with populationSize <= 0 or iterationCount < 0
\* is ever in a usable state, and solve() never runs on it.
C7_InvalidConfigurationRejected ==
    (popSize <= 0 \/ maxIterations < 0) =>
        pc \notin {"Uninitialized", "Running", "Bred", "Done"}

\* C8: the child crossover returns for two parents of N genes and crossover
\* index k has N genes, those before k of parent1 and those from k on of
\* parent2; a parent crossed with itself gives itself, and for N = 1 the
\* child is parent2.
C8_CrossoverSplitsAtIndex ==
    pc = "returned" =>
        /\ Len(ret) = N
        /\ \A k \in 1..N :
               ret[k] = IF k - 1 < call.crossoverIndex
                        THEN call.parent1[k]
                        ELSE call.parent2[k]
        /\ call.parent1 = call.parent2 => ret = call.parent1
        /\ N = 1 => ret = call.parent2

\* a child that takes a gene of either parent and equals neither
C8_Witness ==
    /\ pc = "returned"
    /\ call.crossoverIndex >= 1
    /\ ret # call.parent1
    /\ ret # call.parent2
    /\ ret[1] = call.parent1[1]
    /\ ret[N] = call.parent2[N]

\* C9: with capacity >= 0 and weights >= 0, generateIndividual returns N genes
\* of total selected weight <= capacity: the genes that drew heads before the
\* first one whose weight would exceed capacity are selected, that gene and
\* every later one are not.
C9_GenerateStopsAtCapacity ==
    pc = "returned" =>
        LET heads == { k \in 1..N : call.draws[k] % 2 = 1 }
            over == { k \in heads :
                        weightOf({ j \in heads : j <= k }) > capacity }
        IN  /\ Len(ret) = N
            /\ weightOf(selected(ret)) <= capacity
            /\ \A k \in 1..N :
                   ret[k] = (k \in heads /\ \A b \in over : k < b)

\* a generation that stopped early and left out a later gene that drew heads
\* and would have fitted
C9_Witness ==
    /\ pc = "returned"
    /\ \E b \in 1..N : \E k \in (b + 1)..N :
           /\ call.draws[b] % 2 = 1
           /\ call.draws[k] % 2 = 1
           /\ ~ret[b]
           /\ ~ret[k]
           /\ weightOf(selected(ret)) + items[k].weight <= capacity

\* C10 as stated: with populationSize >= 1 and iterationCount >= 0, the
\* selected items of the individual solve() returns weigh <= capacity.
C10_ResultIsFeasible ==
    (pc = "Done" /\ validConfig) => weightOf(selected(result)) <= capacity

\* C10 as amended: with populationSize >= 1 and iterationCount = 0, the
\* individual solve() returns has N genes and its selected items weigh
\* <= capacity.
C10_ZeroIterationResultIsFeasible ==
    (pc = "Done" /\ popSize >= 1 /\ maxIterations = 0) =>
        /\ Len(result) = N
        /\ weightOf(selected(result)) <= capacity

\* a result of zero iterations that selects an item and leaves out one that
\* does not fit any more
C10_Witness ==
    /\ pc = "Done"
    /\ popSize >= 1
    /\ maxIterations = 0
    /\ selected(result) # {}
    /\ \E k \in 1..N :
           /\ ~result[k]
           /\ weightOf(selected(result)) + items[k].weight > capacity

====
